---- MODULE Spec2Model ----
(***************************************************************************)
(* ZingZui note editor.                                                    *)
(*                                                                         *)
(* Part 1: the continuous dictation session of                             *)
(* components/VoiceInputButton.tsx (the version with shouldContinueRef    *)
(* and resultIndexRef, lines 167-371 of the file).  The component wraps    *)
(* one platform SpeechRecognition object.  The model holds the component's *)
(* React state and refs, the recognizer's own state as the Web Speech API  *)
(* defines it, the pending restart timers, and a log of the calls made to  *)
(* the onTranscript sink.                                                  *)
(*                                                                         *)
(* Part 2: the note editor modal of components/ThemedButton.tsx            *)
(* (NoteEditorModal, which routes dictated text to the title or the body)  *)
(* and the contentEditable body editor of components/RichTextEditor.tsx    *)
(* with the storage helpers of lib/storage (src/unnamed/part_008).         *)
(***************************************************************************)
EXTENDS Integers, Sequences, FiniteSets, TLC

\* ------------------------------------------------------------------ bounds
MaxResults == 2     \* longest results list of one recognizer session
MaxSink    == 3     \* onTranscript calls recorded per recognizer session
MaxTimers  == 1     \* restart timers pending at once

\* ------------------------------------------------------------ text values
\* A transcript is a sequence of tokens; " " is a whitespace token.
Transcripts == { <<"hello">>, <<"world">>, <<" ">> }

ErrorKinds == { "no-speech", "not-allowed", "aborted", "network", "audio-capture" }

NoError        == "null"
MsgMicDenied   == "Microphone access denied."
MsgNetwork     == "Network error. Please check your connection."
MsgStartFailed == "Failed to start recording."

VARIABLES
    isRecording,        \* useState(false)
    isSupported,        \* useState(true)
    error,              \* useState<string|null>(null)
    recognitionRef,     \* "null" or "recognition"
    shouldContinueRef,  \* useRef(false): the continuation flag
    resultIndexRef,     \* useRef(0): the result cursor
    disabled,           \* the disabled prop (the parent's isSaving)
    rec,                \* recognizer: "idle" | "running" | "stopping" | "ending"
    results,            \* the recognizer session's SpeechRecognitionResultList
    timers,             \* number of pending setTimeout(..., 100) restart callbacks
    sink,               \* onTranscript calls of the current recognizer session:
                        \* [idx, text], idx the segment's index in results
    mark,               \* Len(sink) when the restart timer last invoked start()
    userStopped,        \* the last press of the toggle took the stop branch
    lastOp              \* the handler that ran last, and its outcome

VARIABLES
    activeField,          \* useState<'title'|'body'>('body')
    isVoiceButtonPressed, \* useRef(false): the blur suppression flag
    title,                \* useState(''): the title text, a token sequence
    focus,                \* the focused element: "title" | "body" | "none"
    dom,                  \* the editor element's child nodes, in order
    sel,                  \* window.getSelection(): the page's one selection
    body,                 \* useState(''): the value prop, serialized HTML
    outside,              \* nodes the editor's code put outside the editor
    uploads,              \* pasted images whose upload has not resolved
    deletes,              \* deleteImage calls that have not resolved
    alerts,               \* alert() dialogs open: the page is blocked
    changes,              \* onChange calls made by the handler that ran last
    mounted               \* the modal is visible: the editor element is in
                          \* the page and its listeners are attached

\* The dictation component's state without the record of the last handler.
dictState == << isRecording, isSupported, error, recognitionRef,
                shouldContinueRef, resultIndexRef, disabled, rec, results,
                timers, sink, mark, userStopped >>

\* The modal's and the body editor's state.
pageVars == << activeField, isVoiceButtonPressed, title, focus, dom, sel, body,
              outside, uploads, deletes, alerts, changes, mounted >>

vars == << dictState, lastOp, pageVars >>

\* ------------------------------------------------------------ pure helpers
RECURSIVE TrimStart(_)
TrimStart(t) ==
    IF t = << >> THEN << >>
    ELSE IF Head(t) = " " THEN TrimStart(Tail(t)) ELSE t

RECURSIVE TrimEnd(_)
TrimEnd(t) ==
    IF t = << >> THEN << >>
    ELSE IF t[Len(t)] = " " THEN TrimEnd(SubSeq(t, 1, Len(t) - 1)) ELSE t

\* String.prototype.trim
Trim(t) == TrimEnd(TrimStart(t))

\* transcript + ' '
WithDelimiter(t) == t \o << " " >>

\* The handler never reads the transcript of an interim result, so interim
\* hypotheses carry one representative text; a final result carries any.
InterimTranscripts == { <<"hello">> }

Result == [ isFinal : {TRUE}, transcript : Transcripts ]
            \cup [ isFinal : {FALSE}, transcript : InterimTranscripts ]

\* Web Speech API: the results list is zero or more final results followed
\* by zero or more interim results.
FinalsFirst(res) ==
    \A i, j \in 1..Len(res) : (i < j /\ res[j].isFinal) => res[i].isFinal

NumFinal(res) == Cardinality({ i \in 1..Len(res) : res[i].isFinal })

ResultLists == UNION { [1..n -> Result] : n \in 0..MaxResults }

\* Final results are never overwritten or removed; interim ones may be
\* replaced, finalized or dropped.
NextResults(res) ==
    { new \in ResultLists :
        /\ FinalsFirst(new)
        /\ new # res
        /\ NumFinal(new) >= NumFinal(res)
        /\ \A i \in 1..NumFinal(res) : new[i] = res[i] }

\* ------------------------------------------------------------ construction
\* State after the mount effect ran: the platform either offers a
\* SpeechRecognition constructor or it does not.
TypeOK ==
    /\ isRecording \in BOOLEAN /\ isSupported \in BOOLEAN
    /\ error \in { NoError, MsgMicDenied, MsgNetwork, MsgStartFailed }
    /\ recognitionRef \in { "null", "recognition" }
    /\ shouldContinueRef \in BOOLEAN
    /\ resultIndexRef \in 0..MaxResults
    /\ disabled \in BOOLEAN
    /\ rec \in { "idle", "running", "stopping", "ending" }
    /\ results \in ResultLists /\ FinalsFirst(results)
    /\ timers \in 0..MaxTimers
    /\ Len(sink) <= MaxSink
    /\ mark \in 0..MaxSink
    /\ userStopped \in BOOLEAN

DictInit ==
    /\ isRecording = FALSE
    /\ error = NoError
    /\ \/ recognitionRef = "recognition" /\ isSupported = TRUE
       \/ recognitionRef = "null" /\ isSupported = FALSE
    /\ shouldContinueRef = FALSE
    /\ resultIndexRef = 0
    /\ disabled = FALSE
    /\ rec = "idle"
    /\ results = << >>
    /\ timers = 0
    /\ sink = << >>
    /\ mark = 0
    /\ userStopped = FALSE
    /\ lastOp = << "init", "" >>

\* ------------------------------------------------- the platform recognizer
\* recognition.start() throws InvalidStateError when the object is already
\* started (start was called and no end event has fired since).
StartThrows == rec # "idle"

\* recognition.stop(): a started recognizer winds down, delivering what it
\* has, and then fires end; on a recognizer that is not running it is a no-op.
AfterStop == IF rec = "running" THEN "stopping" ELSE rec

\* ------------------------------------------------------------------ toggle
\* The Pressable exists only while the component renders (isSupported) and
\* is inert while disabled.
CanPress == recognitionRef # "null" /\ isSupported /\ ~disabled

ToggleStop ==
    /\ CanPress
    /\ isRecording
    /\ error' = NoError
    /\ shouldContinueRef' = FALSE
    /\ rec' = AfterStop
    /\ isRecording' = FALSE
    /\ userStopped' = TRUE
    /\ lastOp' = << "toggle", "stop" >>
    /\ UNCHANGED << isSupported, recognitionRef, resultIndexRef, disabled,
                    results, timers, sink, mark >>
    /\ UNCHANGED pageVars

ToggleStart ==
    /\ CanPress
    /\ ~isRecording
    /\ resultIndexRef' = 0
    /\ shouldContinueRef' = TRUE
    /\ userStopped' = FALSE
    /\ IF StartThrows
         THEN /\ error' = MsgStartFailed
              /\ lastOp' = << "toggle", "throw" >>
              /\ UNCHANGED << rec, results, sink, mark, isRecording >>
         ELSE /\ error' = NoError
              /\ rec' = "running"
              /\ results' = << >>
              /\ sink' = << >>
              /\ mark' = 0
              /\ isRecording' = TRUE
              /\ lastOp' = << "toggle", "start" >>
    /\ UNCHANGED << isSupported, recognitionRef, disabled, timers >>
    /\ UNCHANGED pageVars

toggleRecording == ToggleStop \/ ToggleStart

\* ---------------------------------------------------------------- onresult
\* for (i = resultIndexRef.current; i < event.results.length; i++): i is
\* 0-based; calls collects the arguments of onTranscriptRef.current.
\* Faulty variant: the isFinal test is dropped, every result is taken as final.
RECURSIVE OnResultLoopAnyResult(_, _, _, _)
OnResultLoopAnyResult(i, res, cursor, calls) ==
    IF i >= Len(res) THEN [ cursor |-> cursor, calls |-> calls ]
    ELSE LET result == res[i + 1] IN
         OnResultLoopAnyResult(i + 1, res, i + 1,
             IF Trim(result.transcript) # << >>
               THEN Append(calls, [ idx |-> i,
                                    text |-> WithDelimiter(result.transcript) ])
               ELSE calls)

RECURSIVE OnResultLoop(_, _, _, _)
OnResultLoop(i, res, cursor, calls) ==
    IF i >= Len(res) THEN [ cursor |-> cursor, calls |-> calls ]
    ELSE LET result == res[i + 1] IN
         IF result.isFinal
           THEN OnResultLoop(i + 1, res, i + 1,
                    IF Trim(result.transcript) # << >>
                      THEN Append(calls, [ idx |-> i,
                                           text |-> WithDelimiter(result.transcript) ])
                      ELSE calls)
           ELSE OnResultLoop(i + 1, res, cursor, calls)

OnResult ==
    /\ rec \in { "running", "stopping" }
    /\ \E new \in NextResults(results) :
         LET r == OnResultLoop(resultIndexRef, new, resultIndexRef, << >>) IN
         /\ Len(sink) + Len(r.calls) <= MaxSink
         /\ results' = new
         /\ resultIndexRef' = r.cursor
         /\ sink' = sink \o r.calls
    /\ lastOp' = << "onresult", "" >>
    /\ UNCHANGED << isRecording, isSupported, error, recognitionRef,
                    shouldContinueRef, disabled, rec, timers, mark,
                    userStopped >>
    /\ UNCHANGED pageVars

\* ----------------------------------------------------------------- onerror
\* Faulty variant: not-allowed leaves the continuation flag as it is.
OnErrorHandlerDeniedKeepsFlag(kind) ==
    IF kind = "not-allowed"
      THEN /\ error' = MsgMicDenied
           /\ isSupported' = FALSE
           /\ isRecording' = FALSE
           /\ UNCHANGED shouldContinueRef
      ELSE IF kind = "network"
      THEN /\ error' = MsgNetwork
           /\ shouldContinueRef' = FALSE
           /\ isRecording' = FALSE
           /\ UNCHANGED isSupported
      ELSE UNCHANGED << error, isSupported, shouldContinueRef, isRecording >>

\* Faulty variant: every error leaves the recording state, as in the handler without
\* continuation (lines 46-61 of the same file).
OnErrorHandlerAlwaysStops(kind) ==
    /\ isRecording' = FALSE
    /\ IF kind = "not-allowed"
         THEN /\ error' = MsgMicDenied
              /\ isSupported' = FALSE
              /\ shouldContinueRef' = FALSE
         ELSE IF kind = "network"
         THEN /\ error' = MsgNetwork
              /\ shouldContinueRef' = FALSE
              /\ UNCHANGED isSupported
         ELSE UNCHANGED << error, isSupported, shouldContinueRef >>

\* Faulty variant: network is handled like the other transient kinds.
OnErrorHandlerNetworkTransient(kind) ==
    IF kind = "not-allowed"
      THEN /\ error' = MsgMicDenied
           /\ isSupported' = FALSE
           /\ shouldContinueRef' = FALSE
           /\ isRecording' = FALSE
      ELSE UNCHANGED << error, isSupported, shouldContinueRef, isRecording >>

\* The body of recognition.onerror.
OnErrorHandler(kind) ==
    IF kind = "not-allowed"
      THEN /\ error' = MsgMicDenied
           /\ isSupported' = FALSE
           /\ shouldContinueRef' = FALSE
           /\ isRecording' = FALSE
      ELSE IF kind = "network"
      THEN /\ error' = MsgNetwork
           /\ shouldContinueRef' = FALSE
           /\ isRecording' = FALSE
           /\ UNCHANGED isSupported
      ELSE UNCHANGED << error, isSupported, shouldContinueRef, isRecording >>

\* An error event: the recognizer reports the error and then ends.
OnError(kind) ==
    /\ rec \in { "running", "stopping" }
    /\ rec' = "ending"
    /\ OnErrorHandler(kind)
    /\ lastOp' = << "onerror", kind >>
    /\ UNCHANGED << recognitionRef, resultIndexRef, disabled, results, timers,
                    sink, mark, userStopped >>
    /\ UNCHANGED pageVars

\* ------------------------------------------------------------------- onend
OnEnd ==
    /\ rec # "idle"
    /\ rec' = "idle"
    /\ results' = << >>
    /\ IF shouldContinueRef
         THEN /\ timers < MaxTimers
              /\ timers' = timers + 1
              /\ lastOp' = << "onend", "restart" >>
              /\ UNCHANGED isRecording
         ELSE /\ isRecording' = FALSE
              /\ lastOp' = << "onend", "idle" >>
              /\ UNCHANGED timers
    /\ UNCHANGED << isSupported, error, recognitionRef, shouldContinueRef,
                    resultIndexRef, disabled, sink, mark, userStopped >>
    /\ UNCHANGED pageVars

\* Faulty variant: the callback starts the recognizer without re-checking the flag.
TimerCallbackNoRecheck ==
    /\ resultIndexRef' = 0
    /\ IF StartThrows
         THEN /\ isRecording' = FALSE
              /\ shouldContinueRef' = FALSE
              /\ mark' = Len(sink)
              /\ lastOp' = << "timer", "throw" >>
              /\ UNCHANGED << rec, results, sink >>
         ELSE /\ rec' = "running"
              /\ results' = << >>
              /\ sink' = << >>
              /\ mark' = 0
              /\ lastOp' = << "timer", "start" >>
              /\ UNCHANGED << isRecording, shouldContinueRef >>

\* Faulty variant: the callback resets the cursor but never calls start().
TimerCallbackNoStart ==
    /\ lastOp' = << "timer", "skip" >>
    /\ resultIndexRef' = IF shouldContinueRef THEN 0 ELSE resultIndexRef
    /\ UNCHANGED << rec, results, isRecording, shouldContinueRef, sink, mark >>

\* The setTimeout callback of onend: re-check the flag, reset the cursor,
\* start the same recognizer; a throwing start() ends the session.
TimerCallback ==
    IF ~shouldContinueRef
      THEN /\ lastOp' = << "timer", "skip" >>
           /\ UNCHANGED << resultIndexRef, rec, results, isRecording,
                           shouldContinueRef, sink, mark >>
      ELSE /\ resultIndexRef' = 0
           /\ IF StartThrows
                THEN /\ isRecording' = FALSE
                     /\ shouldContinueRef' = FALSE
                     /\ mark' = Len(sink)
                     /\ lastOp' = << "timer", "throw" >>
                     /\ UNCHANGED << rec, results, sink >>
                ELSE /\ rec' = "running"
                     /\ results' = << >>
                     /\ sink' = << >>
                     /\ mark' = 0
                     /\ lastOp' = << "timer", "start" >>
                     /\ UNCHANGED << isRecording, shouldContinueRef >>

\* A pending restart timer fires, 100 ms after the onend that set it.
RestartTimer ==
    /\ timers > 0
    /\ timers' = timers - 1
    /\ TimerCallback
    /\ UNCHANGED << isSupported, error, recognitionRef, disabled, userStopped >>
    /\ UNCHANGED pageVars

\* The parent passes disabled={isSaving}.
SetDisabled ==
    /\ disabled' = ~disabled
    /\ lastOp' = << "disabled", "" >>
    /\ UNCHANGED << isRecording, isSupported, error, recognitionRef,
                    shouldContinueRef, resultIndexRef, rec, results, timers,
                    sink, mark, userStopped >>
    /\ UNCHANGED pageVars

DictNext ==
    \/ toggleRecording
    \/ OnResult
    \/ \E kind \in ErrorKinds : OnError(kind)
    \/ OnEnd
    \/ RestartTimer
    \/ SetDisabled

\* While the dictation component is studied the modal shows an empty note
\* that nothing edits.
PageAtRest ==
    /\ activeField = "body"
    /\ isVoiceButtonPressed = FALSE
    /\ title = << >>
    /\ focus = "none"
    /\ dom = << >>
    /\ sel = [ where |-> "none", start |-> 0, end |-> 0 ]
    /\ body = << >>
    /\ outside = << >>
    /\ uploads = << >>
    /\ deletes = << >>
    /\ alerts = 0
    /\ changes = 0
    /\ mounted = TRUE

Init == DictInit /\ PageAtRest

Spec == Init /\ [][DictNext]_vars

\* A timer set with setTimeout fires: the event loop runs its callback.
LiveSpec == Init /\ [][DictNext]_vars /\ WF_vars(RestartTimer)

\* ------------------------------------------------------------ vocabulary
\* start() was invoked by the step that just ran.
StartInvoked == lastOp[2] \in { "start", "throw" }

\* The session states of the design, read off the component.
Listening  == rec = "running"
Restarting == rec = "idle" /\ timers > 0 /\ shouldContinueRef

FatalError == lastOp \in { << "onerror", "not-allowed" >>, << "onerror", "network" >> }

\* Indices of the final results of res whose transcript is not blank, ascending.
RECURSIVE NonBlankFinals(_, _)
NonBlankFinals(res, n) ==
    IF n = 0 THEN << >>
    ELSE LET rest == NonBlankFinals(res, n - 1) IN
         IF res[n].isFinal /\ Trim(res[n].transcript) # << >>
           THEN Append(rest, n - 1) ELSE rest

SinkIdx == [ k \in 1..Len(sink) |-> sink[k].idx ]

\* ------------------------------------------------------------------ claims
\* C1: within one recognizer session the sink is called once per finalized
\* segment, in ascending index order, with no duplicate and no omission.
\* Stated here for the finalized segments whose transcript is not blank (the
\* handler skips blank ones on purpose): while the recognizer is started, the
\* indices passed to the sink are exactly those segments, in order.
C1_OncePerFinalSegmentInOrder ==
    rec # "idle" => SinkIdx = NonBlankFinals(results, Len(results))

\* C2: stop() clears the continuation flag, and from a stop until the user's
\* next start the flag stays clear, the control shows not-recording, no timer
\* invokes start() and the recognizer is never started.
C2_NoRestartAfterStop ==
    [][ /\ (lastOp' = << "toggle", "stop" >> => ~shouldContinueRef')
        /\ (userStopped /\ userStopped' =>
               /\ ~shouldContinueRef' /\ ~isRecording'
               /\ ~StartInvoked'
               /\ (rec' = "running" => rec = "running")) ]_vars

\* C2 witness: a stop was issued while a restart was pending, the timer has
\* since fired, found the flag clear, and the session is idle.
C2_Witness ==
    /\ userStopped /\ lastOp = << "timer", "skip" >>
    /\ rec = "idle" /\ timers = 0 /\ ~isRecording /\ ~shouldContinueRef

\* C3: start() is never invoked while the session is Listening, nor by a
\* toggle while a restart is pending.
C3_OneSessionAtATime ==
    [][ StartInvoked' =>
          /\ ~Listening
          /\ (lastOp'[1] = "toggle" => ~Restarting) ]_vars

\* C4: the restart timer sets the cursor to 0 before it starts the
\* recognizer, and no segment passed to the sink before the timer's start()
\* is passed again after it.
C4_NoReEmissionAcrossRestart ==
    /\ (lastOp[1] = "timer" /\ StartInvoked) => resultIndexRef = 0
    /\ \A a \in 1..mark : \A b \in (mark + 1)..Len(sink) :
          sink[a].idx # sink[b].idx

\* C5: while the recognizer stays started (from its start to its next end)
\* the cursor never decreases.
C5_CursorMonotonicWithinSession ==
    [][ (rec # "idle" /\ rec' # "idle") => resultIndexRef' >= resultIndexRef ]_vars

\* The set of segment indices passed to the sink in this session.
Emitted == { sink[k].idx : k \in 1..Len(sink) }

C7_AutomaticRestart ==
    (lastOp = << "onend", "restart" >>)
      ~> \/ rec = "running" /\ resultIndexRef = 0 /\ lastOp[2] = "start"
         \/ userStopped
         \/ FatalError

\* C7 witness: the restart timer has just started the recognizer again.
C7_Witness ==
    /\ lastOp = << "timer", "start" >> /\ rec = "running" /\ resultIndexRef = 0
    /\ isRecording /\ shouldContinueRef /\ timers = 0

\* C8: not-allowed clears the flag, leaves the recording state and hides the
\* control; afterwards no toggle runs, the flag stays clear and start() is
\* never invoked again, by onend or by a pending timer.
C8_NotAllowedIsFatal ==
    [][ /\ (lastOp' = << "onerror", "not-allowed" >> =>
               /\ ~shouldContinueRef' /\ ~isRecording' /\ ~isSupported'
               /\ error' = MsgMicDenied)
        /\ (~isSupported =>
               /\ ~isSupported' /\ ~shouldContinueRef' /\ ~isRecording'
               /\ lastOp'[1] # "toggle"
               /\ ~StartInvoked'
               /\ lastOp' # << "onend", "restart" >>
               /\ (rec' = "running" => rec = "running")) ]_vars

\* C8 witness: after not-allowed a restart timer that was still pending has
\* fired and the recognizer has ended; nothing restarted.
C8_Witness ==
    /\ error = MsgMicDenied /\ ~isSupported
    /\ lastOp = << "timer", "skip" >> /\ rec = "idle" /\ timers = 0

TransientKinds == ErrorKinds \ { "not-allowed", "network" }

\* C9: a transient error changes none of isRecording, the flag, the cursor
\* and the message; the onend that follows it restarts exactly when the flag
\* is set.
C9_TransientErrorNoChange ==
    [][ /\ (lastOp'[1] = "onerror" /\ lastOp'[2] \in TransientKinds =>
               UNCHANGED << isRecording, shouldContinueRef, resultIndexRef, error >>)
        /\ (lastOp[1] = "onerror" /\ lastOp[2] \in TransientKinds
              /\ lastOp'[1] = "onend" =>
               /\ (lastOp'[2] = "restart") = shouldContinueRef
               /\ (timers' = timers + 1) = shouldContinueRef) ]_vars

\* C9 witness: a no-speech error has just been handled in a live session
\* that had already advanced its cursor; the session is still recording.
C9_Witness ==
    /\ lastOp = << "onerror", "no-speech" >>
    /\ isRecording /\ shouldContinueRef /\ rec = "ending" /\ resultIndexRef > 0

\* C10: network clears the flag, leaves the recording state and shows the
\* message while the control stays; the onend that follows does not restart;
\* the next press then starts the recognizer.
C10_NetworkStopsContinuation ==
    [][ /\ (lastOp' = << "onerror", "network" >> =>
               /\ ~shouldContinueRef' /\ ~isRecording'
               /\ error' = MsgNetwork /\ isSupported')
        /\ (lastOp = << "onerror", "network" >> /\ lastOp'[1] = "onend" =>
               /\ lastOp' = << "onend", "idle" >>
               /\ timers' = timers /\ rec' = "idle" /\ ~isRecording'
               /\ error' = MsgNetwork)
        /\ (lastOp = << "onend", "idle" >> /\ error = MsgNetwork
              /\ lastOp'[1] = "toggle" =>
               /\ lastOp' = << "toggle", "start" >>
               /\ rec' = "running" /\ isRecording' /\ shouldContinueRef'
               /\ resultIndexRef' = 0) ]_vars

\* C10 witness: a network error and then the recognizer's end have been
\* handled; the session is idle with the message shown, no timer is pending
\* and the control can be pressed.
C10_Witness ==
    /\ lastOp = << "onend", "idle" >> /\ error = MsgNetwork
    /\ rec = "idle" /\ ~isRecording /\ ~shouldContinueRef /\ timers = 0
    /\ CanPress

\* =========================================================================
\* Part 2: the note editor modal and the body editor
\* =========================================================================
MaxDoc     == 3     \* nodes in the editor surface
MaxTitle   == 3     \* tokens in the title
MaxOutside == 2     \* nodes put outside the editor

\* ------------------------------------------------------------------- nodes
\* The editor's content is its sequence of leaf nodes: one text node per
\* token, img elements and br elements.  An offset k is the position after
\* the first k nodes.
TextNode(d) == [ tag |-> "text", data |-> d, src |-> << >>, selected |-> FALSE ]
Img(url, s) == [ tag |-> "img", data |-> "", src |-> url, selected |-> s ]
Br          == [ tag |-> "br", data |-> "", src |-> << >>, selected |-> FALSE ]

\* document.createTextNode(text)
TextNodes(text) == [ i \in 1..Len(text) |-> TextNode(text[i]) ]

\* ------------------------------------------------------------- lib/storage
UserId       == "u1"
BucketName   == "note-images"
StorageBase  == "https://store/storage/v1/object/public"
FileNames    == { "1700000000000-abc123.png", "1700000000001-def456.png" }

\* `${userId}/${fileName}`
FilePath(userId, fileName) == << userId, fileName >>

\* supabase.storage.from('note-images').getPublicUrl(path).data.publicUrl
PublicUrl(path) == << StorageBase, BucketName >> \o path

Urls == { PublicUrl(FilePath(UserId, f)) : f \in FileNames }

\* --------------------------------------------------------------- innerHTML
RECURSIVE Join(_)
Join(segs) ==
    IF segs = << >> THEN ""
    ELSE IF Len(segs) = 1 THEN Head(segs)
    ELSE Head(segs) \o "/" \o Join(Tail(segs))

\* Text is serialized with its markup characters escaped.
Escape(d) ==
    IF d = "<" THEN "&lt;" ELSE IF d = ">" THEN "&gt;"
    ELSE IF d = "&" THEN "&amp;" ELSE d

Unescape(t) ==
    IF t = "&lt;" THEN "<" ELSE IF t = "&gt;" THEN ">"
    ELSE IF t = "&amp;" THEN "&" ELSE t

SerializeNode(n) ==
    IF n.tag = "text" THEN Escape(n.data)
    ELSE IF n.tag = "br" THEN "<br>"
    ELSE "<img src=\"" \o Join(n.src) \o "\" contenteditable=\"false\""
         \o (IF n.selected THEN " class=\"selected\"" ELSE "") \o ">"

\* element.innerHTML read: the HTML of the child nodes, a sequence of
\* HTML tokens.
Serialize(d) == [ i \in 1..Len(d) |-> SerializeNode(d[i]) ]

KnownImgs == { Img(u, s) : u \in Urls, s \in BOOLEAN }

ParseToken(t) ==
    IF t \in { "<br>", "<br/>" } THEN Br
    ELSE IF \E n \in KnownImgs : SerializeNode(n) = t
           THEN CHOOSE n \in KnownImgs : SerializeNode(n) = t
    ELSE TextNode(Unescape(t))

\* element.innerHTML = value
Parse(v) == [ i \in 1..Len(v) |-> ParseToken(v[i]) ]

\* -------------------------------------------------------------- selections
NoSelection   == [ where |-> "none", start |-> 0, end |-> 0 ]
\* A range inside the editor, from offset s to offset e.
InEditor(s, e) == [ where |-> "editor", start |-> s, end |-> e ]
\* A range somewhere else in the page (the title field, a label).
OutsideEditor == [ where |-> "outside", start |-> 0, end |-> 0 ]

Selections(d) ==
    { NoSelection, OutsideEditor }
      \cup { InEditor(p[1], p[2]) :
               p \in { q \in (0..Len(d)) \X (0..Len(d)) : q[1] <= q[2] } }

Min(a, b) == IF a <= b THEN a ELSE b

\* ------------------------------------------------------------ render effect
\* The selection after the effect rewrote the surface to d.  The effect
\* re-applies the old start container and offset: a container outside the
\* editor is still in the page; a container that was a child of the editor
\* is detached (addRange ignores it), and when the container is the editor
\* element itself the clamped offset is applied, or setStart throws and the
\* browser's collapsed range at the editor's start stays.
Restored(s, d) ==
    IF s.where = "editor"
      THEN { NoSelection, InEditor(0, 0),
             InEditor(Min(s.start, Len(d)), Min(s.start, Len(d))) }
      ELSE { s }

\* Faulty variant: the effect rewrites the surface whatever it shows.
RenderAlwaysRewrites(v, d, s) ==
    { [ dom |-> Parse(v), sel |-> r ] : r \in Restored(s, Parse(v)) }

\* useEffect(..., [value]): the surface and selection the effect leaves when
\* the value prop v meets the surface d and the selection s.
Render(v, d, s) ==
    IF Serialize(d) # v
      THEN { [ dom |-> Parse(v), sel |-> r ] : r \in Restored(s, Parse(v)) }
      ELSE { [ dom |-> d, sel |-> s ] }

\* onChange(editorRef.current.innerHTML) with the surface d and the
\* selection s: the parent stores the value (setBody) and re-renders.
OnChange(d, s) ==
    /\ body' = Serialize(d)
    /\ changes' = 1
    /\ \E r \in Render(Serialize(d), d, s) : dom' = r.dom /\ sel' = r.sel

\* ------------------------------------------------------ insertTextAtCursor
\* Faulty variant: the text is always appended at the end of the editor.
insertTextAtCursorAppends(text) ==
    /\ OnChange(dom \o TextNodes(text), sel)
    /\ UNCHANGED outside

insertTextAtCursor(text) ==
    IF sel.where = "editor"
      THEN /\ OnChange(SubSeq(dom, 1, sel.start) \o TextNodes(text)
                         \o SubSeq(dom, sel.start + 1, Len(dom)),
                       InEditor(sel.start + Len(text), sel.start + Len(text)))
           /\ UNCHANGED outside
    ELSE IF sel.where = "outside"
      THEN /\ outside' = outside \o TextNodes(text)
           /\ OnChange(dom, sel)
      ELSE /\ OnChange(dom \o TextNodes(text), sel)
           /\ UNCHANGED outside

\* ------------------------------------------------------------------ router
\* What the dictation session hands to onTranscript: transcript + ' ' of a
\* final segment that is not blank.  The modal never reads the text, so one
\* such text stands for all.
SinkTexts == { WithDelimiter(t) : t \in { u \in { <<"hello">> } : Trim(u) # << >> } }

\* Faulty variant: the branches are exchanged.
handleVoiceTranscriptSwapped(text) ==
    IF activeField = "body"
      THEN /\ title' = title \o text
           /\ changes' = 0
           /\ UNCHANGED << dom, sel, body, outside >>
      ELSE /\ insertTextAtCursor(text)
           /\ UNCHANGED title

handleVoiceTranscript(text) ==
    IF activeField = "title"
      THEN /\ title' = title \o text
           /\ changes' = 0
           /\ UNCHANGED << dom, sel, body, outside >>
      ELSE /\ insertTextAtCursor(text)
           /\ UNCHANGED title

\* The handler the dictation component calls through onTranscriptRef is the
\* one of the latest render, so it reads the current activeField.
VoiceTranscript ==
    /\ alerts = 0
    /\ \E text \in SinkTexts :
         /\ IF activeField = "title"
              THEN Len(title) + Len(text) <= MaxTitle
              ELSE IF sel.where = "outside"
                THEN Len(outside) + Len(text) <= MaxOutside
                ELSE Len(dom) + Len(text) <= MaxDoc
         /\ handleVoiceTranscript(text)
    /\ lastOp' = << "transcript", activeField >>
    /\ UNCHANGED << activeField, isVoiceButtonPressed, focus, uploads, deletes,
                    alerts >>
    /\ UNCHANGED << dictState, mounted >>

\* Faulty variant: the blur forgets to clear the flag.
handleTitleBlurKeepsFlag ==
    /\ activeField' = IF ~isVoiceButtonPressed THEN "body" ELSE activeField
    /\ UNCHANGED isVoiceButtonPressed

\* Faulty variant: the blur leaves activeField alone whatever the flag.
handleTitleBlurIgnoresFlag ==
    /\ UNCHANGED activeField
    /\ isVoiceButtonPressed' = FALSE

handleTitleBlur ==
    /\ activeField' = IF ~isVoiceButtonPressed THEN "body" ELSE activeField
    /\ isVoiceButtonPressed' = FALSE

handleBodyBlur ==
    /\ activeField' = IF ~isVoiceButtonPressed THEN "body" ELSE activeField
    /\ isVoiceButtonPressed' = FALSE

\* The focused field loses focus.
Blur ==
    /\ alerts = 0
    /\ focus # "none"
    /\ focus' = "none"
    /\ IF focus = "title" THEN handleTitleBlur ELSE handleBodyBlur
    /\ lastOp' = << "blur", focus >>
    /\ changes' = 0
    /\ UNCHANGED << title, dom, sel, body, outside, uploads, deletes, alerts >>
    /\ UNCHANGED << dictState, mounted >>

\* onFocus={() => setActiveField('title')}
FocusTitle ==
    /\ alerts = 0
    /\ focus = "none"
    /\ focus' = "title"
    /\ activeField' = "title"
    /\ lastOp' = << "focus", "title" >>
    /\ changes' = 0
    /\ UNCHANGED << isVoiceButtonPressed, title, dom, sel, body, outside,
                    uploads, deletes, alerts >>
    /\ UNCHANGED << dictState, mounted >>

\* onFocus={() => setActiveField('body')}: the editor takes the focus and
\* the caret is placed in it.
FocusBody ==
    /\ alerts = 0
    /\ mounted
    /\ focus = "none"
    /\ focus' = "body"
    /\ activeField' = "body"
    /\ \E k \in 0..Len(dom) : sel' = InEditor(k, k)
    /\ lastOp' = << "focus", "body" >>
    /\ changes' = 0
    /\ UNCHANGED << isVoiceButtonPressed, title, dom, body, outside, uploads,
                    deletes, alerts >>
    /\ UNCHANGED << dictState, mounted >>

\* onTouchStart of the view around the dictation toggle.
handleVoiceButtonPress ==
    /\ alerts = 0
    /\ isVoiceButtonPressed' = TRUE
    /\ lastOp' = << "press", "" >>
    /\ changes' = 0
    /\ UNCHANGED << activeField, title, focus, dom, sel, body, outside,
                    uploads, deletes, alerts >>
    /\ UNCHANGED << dictState, mounted >>

\* onChangeText={setTitle}: the user types into the focused title field.
TypeTitle ==
    /\ alerts = 0
    /\ focus = "title"
    /\ Len(title) < MaxTitle
    /\ title' = title \o << "x" >>
    /\ lastOp' = << "type", "title" >>
    /\ changes' = 0
    /\ UNCHANGED << activeField, isVoiceButtonPressed, focus, dom, sel, body,
                    outside, uploads, deletes, alerts >>
    /\ UNCHANGED << dictState, mounted >>

\* The user moves the page's selection: inside the editor while it has the
\* focus, elsewhere in the page (or nowhere) while it has not.
MoveSelection ==
    /\ alerts = 0
    /\ \E s \in Selections(dom) :
         /\ s # sel
         /\ (s.where = "editor") = (focus = "body")
         /\ sel' = s
    /\ lastOp' = << "select", "" >>
    /\ changes' = 0
    /\ UNCHANGED << activeField, isVoiceButtonPressed, title, focus, dom, body,
                    outside, uploads, deletes, alerts >>
    /\ UNCHANGED << dictState, mounted >>

\* ------------------------------------------------------- modal construction
\* note?.body || '' of the note being opened: empty, text, text with markup
\* written by another client, and an image saved without and with the
\* class 'selected'.
NoteBodies ==
    { << >>, << "x" >>, << "&lt;", "<br/>" >>,
      << SerializeNode(Img(PublicUrl(FilePath(UserId, "1700000000000-abc123.png")), FALSE)),
         "<br>" >>,
      << SerializeNode(Img(PublicUrl(FilePath(UserId, "1700000000000-abc123.png")), TRUE)),
         "<br>" >> }

\* The modal was opened: the visible effect stored the note's fields and
\* the editor's first render effect wrote the body to the surface.
ModalInit ==
    /\ DictInit /\ isSupported
    /\ activeField = "body"
    /\ isVoiceButtonPressed = FALSE
    /\ title = << >>
    /\ focus = "none"
    /\ body \in NoteBodies
    /\ dom = Parse(body)
    /\ sel = NoSelection
    /\ outside = << >>
    /\ uploads = << >>
    /\ deletes = << >>
    /\ alerts = 0
    /\ changes = 0
    /\ mounted = TRUE

RouteNext ==
    \/ FocusTitle
    \/ FocusBody
    \/ Blur
    \/ handleVoiceButtonPress
    \/ VoiceTranscript
    \/ TypeTitle
    \/ MoveSelection

RouteSpec == ModalInit /\ [][RouteNext]_vars

PageTypeOK ==
    /\ activeField \in { "title", "body" }
    /\ isVoiceButtonPressed \in BOOLEAN
    /\ focus \in { "title", "body", "none" }
    /\ Len(title) <= MaxTitle /\ Len(dom) <= MaxDoc /\ Len(outside) <= MaxOutside
    /\ sel \in Selections(dom)
    /\ changes \in 0..1
    /\ mounted \in BOOLEAN

\* -------------------------------------------------------------- vocabulary
\* The handler that made the step.
Routed       == lastOp'[1] = "transcript"
Blurred      == lastOp'[1] = "blur"
Pressed      == lastOp'[1] = "press"

\* The HTML value v holds the text t in one piece.
Contains(v, t) ==
    \E k \in 0..(Len(v) - Len(t)) :
        SubSeq(v, k + 1, k + Len(t)) = Serialize(TextNodes(t))

\* ----------------------------------------------------------------- C11
\* C11: a transcript is routed by the ActiveField value of the moment it
\* arrives: with ActiveField = Title the text is appended to the end of the
\* title and the body (surface and canonical value) is unchanged; otherwise
\* the title is unchanged and the text went to the editor's
\* insertTextAtCursor, which added its nodes and called onChange once.
C11_RouteByActiveField ==
    [][ Routed =>
          \E text \in SinkTexts :
            IF activeField = "title"
              THEN /\ title' = title \o text
                   /\ UNCHANGED << dom, body, outside >>
                   /\ changes' = 0
              ELSE /\ title' = title
                   /\ changes' = 1
                   /\ Len(dom') + Len(outside')
                        = Len(dom) + Len(outside) + Len(text) ]_vars

\* Text dictated into a title the user had typed into, the body untouched.
C11_Witness ==
    /\ lastOp = << "transcript", "title" >>
    /\ title = << "x", "hello", " " >>
    /\ body = << "x" >> /\ dom = Parse(body)

C13_ActiveFieldTracksFocus ==
    [][ /\ lastOp' = << "focus", "title" >> => activeField' = "title"
        /\ lastOp' = << "focus", "body" >> => activeField' = "body"
        /\ (Blurred /\ ~isVoiceButtonPressed) => activeField' = "body"
        /\ activeField' # activeField =>
             \/ lastOp'[1] = "focus"
             \/ Blurred /\ ~isVoiceButtonPressed ]_vars

\* The title lost the focus with the flag clear: the body is active.
C13_Witness ==
    /\ lastOp = << "blur", "title" >>
    /\ activeField = "body"
    /\ focus = "none"

\* ----------------------------------------------------------------- C14
\* C14: insertTextAtCursor(t) with the cursor collapsed at offset k of the
\* document D leaves t at offsets k..k+len(t), the rest of D as it was
\* around it, and the cursor collapsed at k+len(t), whether or not the
\* editor has the focus.
C14_InsertAtCursor ==
    [][ (Routed /\ activeField = "body"
           /\ sel.where = "editor" /\ sel.start = sel.end) =>
          \E text \in SinkTexts :
            LET k == sel.start IN
            /\ dom' = SubSeq(dom, 1, k) \o TextNodes(text)
                        \o SubSeq(dom, k + 1, Len(dom))
            /\ sel' = InEditor(k + Len(text), k + Len(text)) ]_vars

\* Text inserted before the node the document held, the cursor between them,
\* while the editor did not have the focus.
C14_Witness ==
    /\ lastOp = << "transcript", "body" >>
    /\ focus = "none"
    /\ sel = InEditor(2, 2)
    /\ dom = << TextNode("hello"), TextNode(" "), TextNode("x") >>

\* ----------------------------------------------------------------- C15
\* C15: insertTextAtCursor touches nothing outside the editor, wherever the
\* page's selection is (in the editor, outside it, absent): it changes only
\* the editor's surface, and the value it passes to onChange contains the
\* inserted text.
C15_NoEffectOutsideEditor ==
    [][ (Routed /\ activeField = "body") =>
          /\ outside' = outside
          /\ changes' = 1
          /\ \E text \in SinkTexts : Contains(body', text) ]_vars

\* =========================================================================
\* The body editor's own handlers
\* =========================================================================
MaxUploads == 2     \* uploads pending at once
MaxDeletes == 1     \* deleteImage calls pending at once

\* The nodes d with the range from offset s to offset e replaced by nodes.
ReplaceRange(d, s, e, nodes) ==
    SubSeq(d, 1, s) \o nodes \o SubSeq(d, e + 1, Len(d))

\* Offsets of the img elements carrying the class 'selected'.
SelectedImgs(d) == { i \in 1..Len(d) : d[i].tag = "img" /\ d[i].selected }

\* document.querySelector('img.selected'): the first one in document order.
FirstSelected(d) == CHOOSE i \in SelectedImgs(d) : \A j \in SelectedImgs(d) : i <= j

\* classList.remove('selected') on every img of the sequence.
Unselect(d) == [ i \in 1..Len(d) |-> [ d[i] EXCEPT !.selected = FALSE ] ]

\* A live range after the node at offset j (1-based) left the surface.
AfterRemoval(s, j) ==
    IF s.where # "editor" THEN s
    ELSE InEditor(IF s.start >= j THEN s.start - 1 ELSE s.start,
                  IF s.end >= j THEN s.end - 1 ELSE s.end)

\* File names no node and no pending call refers to.
FreshFileNames ==
    { f \in FileNames :
        LET u == PublicUrl(FilePath(UserId, f)) IN
        /\ \A i \in 1..Len(dom) : dom[i].src # u
        /\ \A i \in 1..Len(outside) : outside[i].src # u
        /\ \A i \in 1..Len(uploads) : uploads[i] # f
        /\ \A i \in 1..Len(deletes) : deletes[i].src # u }

\* ------------------------------------------------------------- handleInput
\* Faulty variant: the edit is not reported.
handleInputSilent(d, s) ==
    /\ dom' = d /\ sel' = s
    /\ changes' = 0
    /\ UNCHANGED body

\* The input event after the browser edited the surface to d with caret s.
handleInput(d, s) == OnChange(d, s)

\* The user types a character into the focused editor: the browser replaces
\* the selected range by it and fires input.
TypeChar ==
    /\ alerts = 0
    /\ mounted
    /\ focus = "body" /\ sel.where = "editor"
    /\ Len(dom) - (sel.end - sel.start) + 1 <= MaxDoc
    /\ handleInput(ReplaceRange(dom, sel.start, sel.end, << TextNode("x") >>),
                   InEditor(sel.start + 1, sel.start + 1))
    /\ lastOp' = << "input", "type" >>
    /\ UNCHANGED << activeField, isVoiceButtonPressed, title, focus, outside,
                    uploads, deletes, alerts >>
    /\ UNCHANGED << dictState, mounted >>

\* ----------------------------------------------------------- handleKeyDown
\* Faulty variant: only the file name is taken, without the owner's folder.
PathMatchFileName(src) ==
    IF \E i \in 1..(Len(src) - 1) : src[i] = BucketName
      THEN << src[Len(src)] >>
      ELSE << >>

\* imgSrc.match(/note-images\/(.+)$/): the path after the bucket name, or
\* the empty sequence when the src does not match.
PathMatch(src) ==
    IF \E i \in 1..(Len(src) - 1) : src[i] = BucketName
      THEN LET i == CHOOSE k \in 1..(Len(src) - 1) :
                      /\ src[k] = BucketName
                      /\ \A j \in 1..(k - 1) : src[j] # BucketName
           IN SubSeq(src, i + 1, Len(src))
      ELSE << >>

\* selectedImg.remove(); onChange(editor.innerHTML): the element is taken
\* out if it is still a child of the editor.
RemoveSelectedImg(src, attached) ==
    IF attached /\ \E j \in 1..Len(dom) : dom[j].tag = "img" /\ dom[j].src = src
      THEN LET j == CHOOSE k \in 1..Len(dom) : dom[k].tag = "img" /\ dom[k].src = src
           IN OnChange(ReplaceRange(dom, j - 1, j, << >>), AfterRemoval(sel, j))
      ELSE OnChange(dom, sel)

\* Backspace or Delete in the focused editor.  With an img selected the
\* handler prevents the default and deletes the stored file before it
\* removes the element; without one the browser deletes the selected range,
\* or the node before the caret, and fires input.
Backspace ==
    /\ alerts = 0
    /\ mounted
    /\ focus = "body"
    /\ IF SelectedImgs(dom) # { }
         THEN LET img == dom[FirstSelected(dom)] IN
              IF PathMatch(img.src) # << >>
                THEN /\ Len(deletes) < MaxDeletes
                     /\ deletes' = Append(deletes, [ src |-> img.src,
                                                     path |-> PathMatch(img.src),
                                                     attached |-> TRUE ])
                     /\ changes' = 0
                     /\ lastOp' = << "keydown", "await" >>
                     /\ UNCHANGED << dom, sel, body >>
                ELSE /\ RemoveSelectedImg(img.src, TRUE)
                     /\ lastOp' = << "keydown", "removed" >>
                     /\ UNCHANGED deletes
         ELSE /\ sel.where = "editor"
              /\ sel.end > 0
              /\ LET s == IF sel.start < sel.end THEN sel.start ELSE sel.start - 1 IN
                 handleInput(ReplaceRange(dom, s, sel.end, << >>), InEditor(s, s))
              /\ lastOp' = << "input", "delete" >>
              /\ UNCHANGED deletes
    /\ UNCHANGED << activeField, isVoiceButtonPressed, title, focus, outside,
                    uploads, alerts >>
    /\ UNCHANGED << dictState, mounted >>

\* The store carries out a request or refuses it.
StoreOutcomes == { "stored", "refused" }

\* ------------------------------------------------------------- deleteImage
MsgDeleteFailed == "Delete failed"

\* The store removes the object or refuses to; the function never throws.
deleteImage(path, outcome) ==
    IF outcome = "refused" THEN [ error |-> MsgDeleteFailed ]
    ELSE [ error |-> "" ]

\* Faulty variant: a failed delete is reported and the element is kept.
handleDeleteResultChecksError(result, src, attached) ==
    IF result.error # ""
      THEN /\ alerts' = alerts + 1
           /\ changes' = 0
           /\ UNCHANGED << dom, sel, body >>
      ELSE /\ RemoveSelectedImg(src, attached)
           /\ UNCHANGED alerts

\* Lines 176-180: what handleKeyDown does once deleteImage returned.  The
\* result is not looked at.
handleDeleteResult(result, src, attached) ==
    /\ RemoveSelectedImg(src, attached)
    /\ UNCHANGED alerts

\* await deleteImage(imagePath) returned, with or without an error.
DeleteResolve ==
    /\ alerts = 0
    /\ \E i \in 1..Len(deletes), outcome \in StoreOutcomes :
         LET result == deleteImage(deletes[i].path, outcome) IN
         /\ deletes' = SubSeq(deletes, 1, i - 1) \o SubSeq(deletes, i + 1, Len(deletes))
         /\ handleDeleteResult(result, deletes[i].src, deletes[i].attached)
         /\ lastOp' = << "keydown", IF result.error # "" THEN "failed" ELSE "removed" >>
    /\ UNCHANGED << activeField, isVoiceButtonPressed, title, focus, outside,
                    uploads >>
    /\ UNCHANGED << dictState, mounted >>

\* ------------------------------------------------------------- handleClick
\* Faulty variant: the clicked img is marked and the others keep their mark.
ClickKeepsOthers ==
    /\ alerts = 0
    /\ mounted
    /\ focus = "body"
    /\ \E i \in 1..Len(dom) :
         IF dom[i].tag = "img"
           THEN /\ dom' = [ dom EXCEPT ![i].selected = TRUE ]
                /\ lastOp' = << "click", "img" >>
                /\ UNCHANGED << sel, outside >>
           ELSE /\ sel' = InEditor(i, i)
                /\ lastOp' = << "click", "text" >>
                /\ UNCHANGED << dom, outside >>
    /\ changes' = 0
    /\ UNCHANGED << activeField, isVoiceButtonPressed, title, focus, body,
                    uploads, deletes, alerts >>
    /\ UNCHANGED << dictState, mounted >>

\* The user clicks node i of the focused editor.
Click ==
    /\ alerts = 0
    /\ mounted
    /\ focus = "body"
    /\ \E i \in 1..Len(dom) :
         IF dom[i].tag = "img"
           THEN /\ dom' = [ Unselect(dom) EXCEPT ![i].selected = TRUE ]
                /\ outside' = Unselect(outside)
                /\ lastOp' = << "click", "img" >>
                /\ UNCHANGED sel
           ELSE /\ sel' = InEditor(i, i)
                /\ lastOp' = << "click", "text" >>
                /\ UNCHANGED << dom, outside >>
    /\ changes' = 0
    /\ UNCHANGED << activeField, isVoiceButtonPressed, title, focus, body,
                    uploads, deletes, alerts >>
    /\ UNCHANGED << dictState, mounted >>

\* ------------------------------------------------------------- uploadImage
MsgUploadFailed == "Upload failed"

uploadImage(fileName, outcome) ==
    IF outcome = "refused"
      THEN [ url |-> << >>, path |-> << >>, error |-> MsgUploadFailed ]
      ELSE [ url |-> PublicUrl(FilePath(UserId, fileName)),
             path |-> FilePath(UserId, fileName), error |-> "" ]

\* ------------------------------------------------------------- handlePaste
\* Faulty variant: a placeholder node is put at the caret while the upload
\* is pending.
handlePasteWithPlaceholder(fileName) ==
    /\ uploads' = Append(uploads, fileName)
    /\ dom' = ReplaceRange(dom, sel.start, sel.start, << Br >>)
    /\ changes' = 0
    /\ UNCHANGED << sel, body, outside, alerts >>

\* An image item is pasted: the default is prevented and the upload is
\* started; nothing else happens until it resolves.
handlePaste(fileName) ==
    /\ uploads' = Append(uploads, fileName)
    /\ changes' = 0
    /\ UNCHANGED << dom, sel, body, outside, alerts >>

Paste ==
    /\ alerts = 0
    /\ mounted
    /\ focus = "body" /\ sel.where = "editor"
    /\ Len(uploads) < MaxUploads
    /\ FreshFileNames # { }
    /\ handlePaste(CHOOSE f \in FreshFileNames : TRUE)
    /\ lastOp' = << "paste", "" >>
    /\ UNCHANGED << activeField, isVoiceButtonPressed, title, focus, deletes >>
    /\ UNCHANGED << dictState, mounted >>

\* Faulty variant: the line break is left out.
insertAttachmentNoBreak(url) ==
    IF sel.where = "editor"
      THEN /\ OnChange(ReplaceRange(dom, sel.start, sel.end, << Img(url, FALSE) >>),
                       InEditor(sel.start + 1, sel.start + 1))
           /\ UNCHANGED outside
    ELSE IF sel.where = "outside"
      THEN /\ outside' = outside \o << Img(url, FALSE) >>
           /\ OnChange(dom, sel)
      ELSE /\ OnChange(dom \o << Img(url, FALSE) >>, sel)
           /\ UNCHANGED outside

\* Lines 103-131: the img element is put at the page's selection, whose
\* content is deleted, a br after it and the caret after the br; without a
\* selection both are appended to the editor.  Then onChange.
insertAttachment(url) ==
    IF sel.where = "editor"
      THEN /\ OnChange(ReplaceRange(dom, sel.start, sel.end, << Img(url, FALSE), Br >>),
                       InEditor(sel.start + 2, sel.start + 2))
           /\ UNCHANGED outside
    ELSE IF sel.where = "outside"
      THEN /\ outside' = outside \o << Img(url, FALSE), Br >>
           /\ OnChange(dom, sel)
      ELSE /\ OnChange(dom \o << Img(url, FALSE), Br >>, sel)
           /\ UNCHANGED outside

\* Faulty variant: the error of the result is not looked at.
handleUploadResultIgnoresError(result) ==
    /\ insertAttachment(result.url)
    /\ UNCHANGED alerts

\* Lines 96-131: what the paste handler does with uploadImage's result.
\* alert() opens a dialog that blocks the page until it is dismissed.
handleUploadResult(result) ==
    IF result.error # ""
      THEN /\ alerts' = alerts + 1
           /\ changes' = 0
           /\ UNCHANGED << dom, sel, body, outside >>
      ELSE /\ insertAttachment(result.url)
           /\ UNCHANGED alerts

\* Faulty variant: the handlers share one pending upload; when one resolves
\* the others are forgotten.
UploadResolveDropsOthers ==
    /\ alerts = 0
    /\ \E i \in 1..Len(uploads), outcome \in StoreOutcomes :
         LET result == uploadImage(uploads[i], outcome) IN
         /\ result.error = "" =>
               IF sel.where = "outside" THEN Len(outside) + 2 <= MaxOutside
               ELSE Len(dom) - (sel.end - sel.start) + 2 <= MaxDoc
         /\ handleUploadResult(result)
         /\ uploads' = << >>
         /\ lastOp' = << "upload", IF result.error # "" THEN "error"
                                   ELSE IF i > 1 THEN "ok-ahead" ELSE "ok" >>
    /\ UNCHANGED << activeField, isVoiceButtonPressed, title, focus, deletes >>
    /\ UNCHANGED << dictState, mounted >>

\* The upload of a pasted image resolves; pending uploads are kept in the
\* order of their pastes and resolve in any order.
UploadResolve ==
    /\ alerts = 0
    /\ \E i \in 1..Len(uploads), outcome \in StoreOutcomes :
         LET result == uploadImage(uploads[i], outcome) IN
         /\ result.error = "" =>
               IF sel.where = "outside" THEN Len(outside) + 2 <= MaxOutside
               ELSE Len(dom) - (sel.end - sel.start) + 2 <= MaxDoc
         /\ handleUploadResult(result)
         /\ uploads' = SubSeq(uploads, 1, i - 1) \o SubSeq(uploads, i + 1, Len(uploads))
         /\ lastOp' = << "upload", IF result.error # "" THEN "error"
                                   ELSE IF i > 1 THEN "ok-ahead" ELSE "ok" >>
    /\ UNCHANGED << activeField, isVoiceButtonPressed, title, focus, deletes >>
    /\ UNCHANGED << dictState, mounted >>

\* ---------------------------------------------------------- the value prop
\* The modal's visible/note effect stores the note's fields again
\* (setTitle, setBody); the editor's render effect runs when the value
\* changed.  Elements taken out by a rewrite are no longer in the page.
ParentSetBody ==
    /\ alerts = 0
    /\ \E v \in NoteBodies :
         /\ v # body
         /\ body' = v
         /\ \E r \in Render(v, dom, sel) :
              /\ dom' = r.dom /\ sel' = r.sel
              /\ lastOp' = << "render", IF Serialize(dom) # v THEN "rewrite" ELSE "same" >>
              /\ deletes' = [ i \in 1..Len(deletes) |->
                               [ deletes[i] EXCEPT !.attached =
                                   deletes[i].attached /\ Serialize(dom) = v ] ]
    /\ title' = << >>
    /\ changes' = 0
    /\ UNCHANGED << activeField, isVoiceButtonPressed, focus, outside, uploads,
                    alerts >>
    /\ UNCHANGED << dictState, mounted >>

\* Dictated text arrives while the body is the active field.
DictateIntoBody == activeField = "body" /\ VoiceTranscript

\* The user dismisses the dialog.
DismissAlert ==
    /\ alerts > 0
    /\ alerts' = alerts - 1
    /\ lastOp' = << "dismiss", "" >>
    /\ changes' = 0
    /\ UNCHANGED << activeField, isVoiceButtonPressed, title, focus, dom, sel,
                    body, outside, uploads, deletes >>
    /\ UNCHANGED << dictState, mounted >>

\* The user stays in the editor: types and deletes, clicks nodes, pastes
\* images, deletes selected images, and dictates into the body.
EditorNext ==
    \/ FocusBody
    \/ Click
    \/ TypeChar
    \/ Backspace
    \/ DeleteResolve
    \/ Paste
    \/ UploadResolve
    \/ DismissAlert
    \/ DictateIntoBody

EditorSpec == ModalInit /\ [][EditorNext]_vars

\* Pasted images are uploaded while the user goes on typing, moves the
\* selection in and out of the editor, and leaves the editor and returns.
UploadNext ==
    \/ FocusBody
    \/ Blur
    \/ MoveSelection
    \/ TypeChar
    \/ Paste
    \/ UploadResolve
    \/ DismissAlert

UploadSpec == ModalInit /\ [][UploadNext]_vars

\* The editor under a parent that stores the note's body again while the
\* user edits and clicks.
RenderNext ==
    \/ FocusBody
    \/ Blur
    \/ MoveSelection
    \/ TypeChar
    \/ Click
    \/ ParentSetBody

RenderSpec == ModalInit /\ [][RenderNext]_vars

\* Clicks, pastes and deletions in an editor whose parent stores the note's
\* body again from time to time.
SelectNext ==
    \/ FocusBody
    \/ Click
    \/ Backspace
    \/ DeleteResolve
    \/ Paste
    \/ UploadResolve
    \/ DismissAlert
    \/ ParentSetBody

SelectSpec == ModalInit /\ [][SelectNext]_vars

\* ------------------------------------------------------------- teardown
\* The modal is closed (onClose makes visible false): the Modal takes its
\* children out of the page and the editor's effect cleanup removes the
\* listeners.  The modal component itself stays mounted with its state; the
\* handlers of pending uploads keep the detached editor element.  A range
\* that was inside the editor is dropped or ends up in what is left of the
\* page.
Unmount ==
    /\ alerts = 0
    /\ mounted
    /\ mounted' = FALSE
    /\ focus' = "none"
    /\ sel' \in IF sel.where = "editor" THEN { NoSelection, OutsideEditor }
                ELSE { sel }
    /\ lastOp' = << "unmount", "" >>
    /\ changes' = 0
    /\ UNCHANGED << activeField, isVoiceButtonPressed, title, dom, body, outside,
                    uploads, deletes, alerts >>
    /\ UNCHANGED dictState

\* Images are pasted and the modal is closed while uploads are pending.
TeardownNext ==
    \/ FocusBody
    \/ TypeChar
    \/ Paste
    \/ UploadResolve
    \/ DismissAlert
    \/ Unmount

TeardownSpec == ModalInit /\ [][TeardownNext]_vars

EditorTypeOK ==
    /\ PageTypeOK
    /\ Len(uploads) <= MaxUploads /\ Len(deletes) <= MaxDeletes
    /\ alerts \in 0..1
    /\ activeField = "body"

\* ----------------------------------------------------------------- C16
\* C16: render is idempotent.  When the value handed to the render effect
\* equals the content the surface shows, the surface is not rewritten and
\* the selection stays as it is; the surface is rewritten (to the parsed
\* value) only when the value differs.
C16_RenderIdempotent ==
    [][ lastOp'[1] = "render" =>
          IF body' = Serialize(dom)
            THEN UNCHANGED << dom, sel >>
            ELSE dom' = Parse(body') ]_vars

\* The parent stored the very content the surface showed (an image the user
\* had selected): nothing was rewritten and the caret stayed in the text.
C16_Witness ==
    /\ lastOp = << "render", "same" >>
    /\ body = Serialize(dom)
    /\ SelectedImgs(dom) # { }
    /\ sel.where = "editor" /\ sel.start > 0

\* ----------------------------------------------------------------- C17
\* C17: every mutation made through the engine (user input, text inserted
\* at the cursor, an attachment inserted after its upload succeeded, an
\* attachment deleted) comes with one onChange call that passes the whole
\* serialized surface, so the caller's canonical value equals the surface
\* content after the operation.
C17_OnChangeAfterMutation ==
    [][ ( \/ lastOp'[1] = "input"
          \/ lastOp' = << "transcript", "body" >>
          \/ (lastOp'[1] = "upload" /\ lastOp'[2] # "error")
          \/ lastOp' \in { << "keydown", "removed" >>, << "keydown", "failed" >> } ) =>
          /\ changes' = 1
          /\ body' = Serialize(dom') ]_vars

\* A selected image was deleted: the line break after it is what is left,
\* in the surface and in the canonical value.
C17_Witness ==
    /\ lastOp = << "keydown", "removed" >>
    /\ dom = << Br >>
    /\ body = << "<br>" >>
    /\ deletes = << >>

C19_UploadFailureLeavesDocument ==
    [][ lastOp' = << "upload", "error" >> =>
          /\ UNCHANGED << dom, sel, body, outside >>
          /\ changes' = 0
          /\ alerts' = alerts + 1
          /\ Len(uploads') = Len(uploads) - 1 ]_vars

\* The only pending upload failed: the notice is up and nothing is pending.
C19_Witness ==
    /\ lastOp = << "upload", "error" >>
    /\ alerts = 1
    /\ uploads = << >>
    /\ dom = << TextNode("x") >> /\ body = << "x" >>

\* ----------------------------------------------------------------- C20
\* C20: an image paste is fire-and-forget.  The paste itself changes
\* nothing of the document (no placeholder) and only starts the upload; the
\* document of the moment the upload succeeds, with the edits made in the
\* meantime, is kept around the selection of that moment, where the
\* attachment goes.
C20_PasteFireAndForget ==
    [][ /\ lastOp' = << "paste", "" >> =>
             /\ UNCHANGED << dom, sel, body, outside >>
             /\ changes' = 0
             /\ Len(uploads') = Len(uploads) + 1
        /\ (lastOp'[1] = "upload" /\ lastOp'[2] # "error") =>
             IF sel.where = "editor"
               THEN LET rest == Len(dom) - sel.end IN
                    /\ SubSeq(dom', 1, sel.start) = SubSeq(dom, 1, sel.start)
                    /\ dom'[sel.start + 1].tag = "img"
                    /\ SubSeq(dom', Len(dom') - rest + 1, Len(dom'))
                         = SubSeq(dom, sel.end + 1, Len(dom))
               ELSE SubSeq(dom', 1, Len(dom)) = dom ]_vars

\* The paste was made with the caret in the editor; when the upload
\* succeeded the page had no selection, and the attachment went to the end
\* of the text typed so far.
C20_Witness ==
    /\ lastOp = << "upload", "ok" >>
    /\ sel = NoSelection
    /\ Len(dom) = 3
    /\ dom[1] = TextNode("x") /\ dom[2].tag = "img" /\ dom[3] = Br
    /\ body = Serialize(dom)

\* ----------------------------------------------------------------- C27
\* C27: the recording indicator agrees with the continuation flag: in every
\* reachable state shouldContinueRef is true only if isRecording is true (a
\* start() that throws leaves the session idle with the flag false).
C27_FlagImpliesRecording == shouldContinueRef => isRecording

\* ----------------------------------------------------------------- C28
\* C28: the suppression flag is set only between a press on the dictation
\* toggle and the blur that press causes: whenever the title or the body
\* receives the focus the flag is false (so a press that caused no blur
\* cannot suppress the blur of a field focused later).
C28_FlagOnlyUntilBlur ==
    [][ lastOp'[1] = "focus" => ~isVoiceButtonPressed' ]_vars
\* ----------------------------------------------------------------- C23
\* C23: local removal of a selected attachment is immediate.  While a
\* deleteImage call issued by Delete/Backspace has not resolved, the img
\* element it was issued for is no longer in the document.
C23_RemovedBeforeDeleteResolves ==
    \A i \in 1..Len(deletes) :
        \A j \in 1..Len(dom) : dom[j].src # deletes[i].src

\* ----------------------------------------------------------------- C24
\* C24: Delete/Backspace on a selected attachment calls deleteImage with the
\* path that lies under the attachment's URL, and when the call returns,
\* with an error or without, the element is gone from the document and
\* from the value passed to onChange; no dialog is opened.
C24_DeleteIgnoresStoreError ==
    [][ /\ lastOp' = << "keydown", "await" >> =>
             LET img == dom[FirstSelected(dom)]
                 call == deletes'[Len(deletes')]
             IN /\ Len(deletes') = Len(deletes) + 1
                /\ call.path # << >>
                /\ PublicUrl(call.path) = img.src
        /\ ( /\ lastOp' \in { << "keydown", "removed" >>, << "keydown", "failed" >> }
             /\ Len(deletes') < Len(deletes) ) =>
             \E i \in 1..Len(deletes) :
                /\ deletes' = SubSeq(deletes, 1, i - 1)
                                \o SubSeq(deletes, i + 1, Len(deletes))
                /\ \A j \in 1..Len(dom') : dom'[j].src # deletes[i].src
                /\ \A j \in 1..Len(body') :
                      \A sl \in BOOLEAN :
                         body'[j] # SerializeNode(Img(deletes[i].src, sl))
                /\ body' = Serialize(dom')
                /\ changes' = 1
                /\ alerts' = alerts ]_vars

\* The store refused the delete: the element is gone all the same, the
\* canonical value holds what is left, and no dialog is open.
C24_Witness ==
    /\ lastOp = << "keydown", "failed" >>
    /\ \A j \in 1..Len(dom) : dom[j].tag # "img"
    /\ body = Serialize(dom)
    /\ Len(dom) > 0
    /\ alerts = 0

\* ----------------------------------------------------------------- C25
\* C25: path round trip.  The path handleKeyDown derives from the src of an
\* attachment that a successful upload created equals the path under which
\* uploadImage stored the object.
C25_PathRoundTrip ==
    [][ lastOp' = << "keydown", "await" >> =>
          LET call == deletes'[Len(deletes')] IN
          \E f \in FileNames :
             /\ uploadImage(f, "stored").url = call.src
             /\ uploadImage(f, "stored").path = call.path
             /\ call.path = FilePath(UserId, f) ]_vars

\* A delete is pending for the stored object of an attachment.
C25_Witness ==
    /\ lastOp = << "keydown", "await" >>
    /\ Len(deletes) = 1
    /\ \E f \in FileNames :
          /\ deletes[1].src = PublicUrl(FilePath(UserId, f))
          /\ deletes[1].path = << UserId, f >>

\* ----------------------------------------------------------------- C29
\* C29: once the user clicks a location of the editor that is not an
\* attachment, no attachment is selected (so a later Delete/Backspace
\* edits text only).
C29_ClickOnTextDeselects ==
    [][ lastOp' = << "click", "text" >> => SelectedImgs(dom') = { } ]_vars

\* ----------------------------------------------------------------- C30
\* C30: the selected marking never reaches the canonical value.  A value
\* passed to onChange carries no selected attachment (stated for a
\* canonical value that carried none before the call).
C30_SelectionNotInValue ==
    [][ (changes' = 1 /\ SelectedImgs(Parse(body)) = { }) =>
           SelectedImgs(Parse(body')) = { } ]_vars

\* ----------------------------------------------------------------- C22
\* C22: single selection.  Through clicks, pastes, deletions and re-renders
\* at most one attachment of the page carries the selected mark, and a
\* click on an attachment leaves that attachment, and no other, selected.
C22_SingleSelection ==
    /\ [](Cardinality(SelectedImgs(dom)) + Cardinality(SelectedImgs(outside)) <= 1)
    /\ [][ lastOp' = << "click", "img" >> =>
             \E i \in 1..Len(dom') :
                /\ dom'[i].tag = "img"
                /\ SelectedImgs(dom') = { i }
                /\ dom' = [ Unselect(dom) EXCEPT ![i].selected = TRUE ] ]_vars

\* Two attachments in the document, one of them clicked last: exactly one
\* is selected.
C22_Witness ==
    /\ lastOp = << "click", "img" >>
    /\ Cardinality({ i \in 1..Len(dom) : dom[i].tag = "img" }) = 2
    /\ Cardinality(SelectedImgs(dom)) = 1

\* ----------------------------------------------------------------- C21
\* The number of img elements of the sequence d that show url.
ImgCount(d, url) ==
    Cardinality({ j \in 1..Len(d) : d[j].tag = "img" /\ d[j].src = url })

\* C21: concurrent uploads are independent.  Whichever pending upload
\* resolves, a successful one adds exactly one img with its own url,
\* followed by its own br, and a failed one adds nothing; the other pending
\* uploads stay pending and the other attachments stay as they are.
C21_UploadsIndependent ==
    [][ lastOp'[1] = "upload" =>
          \E i \in 1..Len(uploads) :
             LET u == PublicUrl(FilePath(UserId, uploads[i])) IN
             /\ uploads' = SubSeq(uploads, 1, i - 1)
                             \o SubSeq(uploads, i + 1, Len(uploads))
             /\ ImgCount(dom \o outside, u) = 0
             /\ IF lastOp'[2] = "error"
                  THEN UNCHANGED << dom, outside, body >>
                  ELSE /\ ImgCount(dom' \o outside', u) = 1
                       /\ Len(dom' \o outside') = Len(dom \o outside) + 2
                       /\ \E j \in 1..(Len(dom' \o outside') - 1) :
                             /\ (dom' \o outside')[j] = Img(u, FALSE)
                             /\ (dom' \o outside')[j + 1] = Br
                       /\ \A v \in Urls \ { u } :
                             ImgCount(dom' \o outside', v)
                               = ImgCount(dom \o outside, v) ]_vars

\* The upload pasted second resolved first: its attachment and line break
\* are in the document while the first upload is still pending.
C21_Witness ==
    /\ lastOp = << "upload", "ok-ahead" >>
    /\ Len(uploads) = 1
    /\ ImgCount(dom, PublicUrl(FilePath(UserId, uploads[1]))) = 0
    /\ \E f \in FileNames \ { uploads[1] } :
          /\ ImgCount(dom, PublicUrl(FilePath(UserId, f))) = 1
          /\ \E j \in 1..(Len(dom) - 1) :
                /\ dom[j] = Img(PublicUrl(FilePath(UserId, f)), FALSE)
                /\ dom[j + 1] = Br

\* ----------------------------------------------------------------- C26
\* C26: an upload that resolves after the editor was torn down is
\* discarded: it puts no node anywhere, calls no onChange and leaves the
\* canonical value as it is.
C26_LateUploadDiscarded ==
    [][ (lastOp'[1] = "upload" /\ ~mounted) =>
          /\ UNCHANGED << dom, outside, body >>
          /\ changes' = 0 ]_vars

====
